---------------------------- MODULE Spec2Model ----------------------------
(***************************************************************************)
(* Model of nvflare/fuel/sec/authz.py: the authorization policy, its       *)
(* expression grammar and compiler, the Authorizer and the process-wide    *)
(* AuthorizationService.                                                   *)
(*                                                                         *)
(* A Python str is a sequence of one-character strings, so that lower(),   *)
(* split() and join() are computed and not assumed.  Any other Python      *)
(* value is a record [t, v]: t is the type's name and v the payload.  A    *)
(* dict is the sequence of its <<key, value>> items in insertion order.    *)
(***************************************************************************)
EXTENDS Integers, Sequences, FiniteSets, TLC

VARIABLES
    authorizers,     \* id -> Authorizer object (site_org, right_categories, policy, last_load_time)
    the_authorizer,  \* AuthorizationService.the_authorizer: an id, or NoAuthorizer for None
    now,             \* the value time.time() returns
    call,            \* the call in progress or last completed, with its arguments and result
    threads          \* thread -> its position inside the call it is making, with the call's locals

vars == <<authorizers, the_authorizer, now, call, threads>>

---------------------------------------------------------------------------
(* Bounds of the model *)

MaxConds == 2
MaxTime == 1
MaxKeys == 2
NumThreads == 3
MaxLoads == 2
MaxRoles == 2

---------------------------------------------------------------------------
(* Python str *)

Uppers == <<"A", "B", "C", "D", "E", "F", "G", "H", "I", "J", "K", "L", "M",
            "N", "O", "P", "Q", "R", "S", "T", "U", "V", "W", "X", "Y", "Z">>
Lowers == <<"a", "b", "c", "d", "e", "f", "g", "h", "i", "j", "k", "l", "m",
            "n", "o", "p", "q", "r", "s", "t", "u", "v", "w", "x", "y", "z">>
Whitespace == {" ", "\t", "\n"}

\* The characters of the model in code point order (str comparison, list.sort)
Alphabet == <<"\t", "\n", " ", "'", "*", "-", ".", "0", "1", ":">> \o Uppers \o <<"_">> \o Lowers

ord(c) == CHOOSE i \in 1..Len(Alphabet) : Alphabet[i] = c

lower_char(c) ==
    IF \E i \in 1..Len(Uppers) : Uppers[i] = c
    THEN Lowers[CHOOSE i \in 1..Len(Uppers) : Uppers[i] = c]
    ELSE c

\* str.lower()
lower(s) == [i \in 1..Len(s) |-> lower_char(s[i])]

\* str.split(): the maximal runs of non-whitespace characters
RECURSIVE split_from(_, _, _, _)
split_from(s, i, cur, acc) ==
    IF i > Len(s)
    THEN IF cur = <<>> THEN acc ELSE Append(acc, cur)
    ELSE IF s[i] \in Whitespace
         THEN split_from(s, i + 1, <<>>, IF cur = <<>> THEN acc ELSE Append(acc, cur))
         ELSE split_from(s, i + 1, Append(cur, s[i]), acc)

split(s) == split_from(s, 1, <<>>, <<>>)

\* str.split(sep) for a one-character sep: empty pieces are kept
RECURSIVE split_sep_from(_, _, _, _, _)
split_sep_from(s, sep, i, cur, acc) ==
    IF i > Len(s)
    THEN Append(acc, cur)
    ELSE IF s[i] = sep
         THEN split_sep_from(s, sep, i + 1, <<>>, Append(acc, cur))
         ELSE split_sep_from(s, sep, i + 1, Append(cur, s[i]), acc)

split_sep(s, sep) == split_sep_from(s, sep, 1, <<>>, <<>>)

\* sep.join(parts)
RECURSIVE join(_, _)
join(sep, parts) ==
    IF parts = <<>> THEN <<>>
    ELSE IF Len(parts) = 1 THEN parts[1]
    ELSE parts[1] \o sep \o join(sep, Tail(parts))

\* s < t for two str: by code point, a proper prefix first
RECURSIVE str_lt(_, _)
str_lt(s, t) ==
    IF t = <<>> THEN FALSE
    ELSE IF s = <<>> THEN TRUE
    ELSE IF s[1] = t[1] THEN str_lt(Tail(s), Tail(t))
    ELSE ord(s[1]) < ord(t[1])

_normalize_str(s) == join(<<" ">>, split(lower(s)))

_KEY_PERMISSIONS == <<"p", "e", "r", "m", "i", "s", "s", "i", "o", "n", "s">>
_KEY_FORMAT_VERSION == <<"f", "o", "r", "m", "a", "t", "_", "v", "e", "r", "s", "i", "o", "n">>
_TARGET_SITE == <<"s", "i", "t", "e">>
_TARGET_SUBMITTER == <<"s", "u", "b", "m", "i", "t", "t", "e", "r">>
_ANY_RIGHT == <<"*">>

---------------------------------------------------------------------------
(* Python values *)

PyStr(s) == [t |-> "str", v |-> s]
PyList(xs) == [t |-> "list", v |-> xs]
PyDict(items) == [t |-> "dict", v |-> items]
PyInt(n) == [t |-> "int", v |-> n]
PyBool(b) == [t |-> "bool", v |-> b]
PyNone == [t |-> "NoneType", v |-> <<>>]

\* bool(x)
truthy(x) ==
    CASE x.t = "NoneType" -> FALSE
      [] x.t = "bool" -> x.v
      [] x.t = "int" -> x.v # 0
      [] OTHER -> x.v # <<>>

\* d.get(key) for a dict d
dict_get(d, key) ==
    IF \E i \in 1..Len(d.v) : d.v[i][1] = key
    THEN d.v[CHOOSE i \in 1..Len(d.v) : d.v[i][1] = key][2]
    ELSE PyNone

---------------------------------------------------------------------------
(* Person and AuthzContext *)

TypeError == [cls |-> "TypeError"]

Person(name, org, role) ==
    IF role.t = "str"
    THEN [cls |-> "Person", name |-> _normalize_str(name), org |-> _normalize_str(org),
          roles |-> <<_normalize_str(role.v)>>]
    ELSE IF role.t = "list" /\ Len(role.v) > 0 /\ \A i \in 1..Len(role.v) : role.v[i].t = "str"
    THEN [cls |-> "Person", name |-> _normalize_str(name), org |-> _normalize_str(org),
          roles |-> [i \in 1..Len(role.v) |-> _normalize_str(role.v[i].v)]]
    ELSE TypeError

NoneObject == [cls |-> "NoneType"]

AuthzContext(right, user, submitter) ==
    [cls |-> "AuthzContext", right |-> right, user |-> user,
     submitter |-> IF submitter.cls = "NoneType"
                   THEN Person(<<>>, <<>>, PyStr(<<>>))
                   ELSE submitter]

---------------------------------------------------------------------------
(* Condition evaluators *)

UserOrgEvaluator(target) == [cls |-> "UserOrgEvaluator", target |-> target]
UserNameEvaluator(target) == [cls |-> "UserNameEvaluator", target |-> target]
TrueEvaluator == [cls |-> "TrueEvaluator", target |-> <<>>]
FalseEvaluator == [cls |-> "FalseEvaluator", target |-> <<>>]

UserOrgEvaluator_evaluate(e, site_org, ctx) ==
    IF e.target = _TARGET_SITE THEN ctx.user.org = site_org
    ELSE IF e.target = _TARGET_SUBMITTER THEN ctx.user.org = ctx.submitter.org
    ELSE ctx.user.org = e.target

UserNameEvaluator_evaluate(e, site_org, ctx) ==
    IF e.target = _TARGET_SUBMITTER THEN ctx.user.name = ctx.submitter.name
    ELSE ctx.user.name = e.target

ConditionEvaluator_evaluate(e, site_org, ctx) ==
    CASE e.cls = "UserOrgEvaluator" -> UserOrgEvaluator_evaluate(e, site_org, ctx)
      [] e.cls = "UserNameEvaluator" -> UserNameEvaluator_evaluate(e, site_org, ctx)
      [] e.cls = "TrueEvaluator" -> TRUE
      [] e.cls = "FalseEvaluator" -> FALSE

---------------------------------------------------------------------------
(* _RoleRightConditions *)

RoleRightConditions(allowed, blocked, exp) ==
    [allowed_conditions |-> allowed, blocked_conditions |-> blocked, exp |-> exp]

\* the loop returns True at the first evaluator that matches, False after the last
_any_condition_matched(conds, site_org, ctx) ==
    \E i \in 1..Len(conds) : ConditionEvaluator_evaluate(conds[i], site_org, ctx)

\* evaluate with the allowed list looked at before the blocked list
RoleRightConditions_evaluate_allow_first(c, site_org, ctx) ==
    IF c.allowed_conditions # <<>> /\ _any_condition_matched(c.allowed_conditions, site_org, ctx)
    THEN TRUE
    ELSE IF c.blocked_conditions # <<>> /\ _any_condition_matched(c.blocked_conditions, site_org, ctx)
    THEN FALSE
    ELSE c.allowed_conditions = <<>>

\* evaluate that ends in "return False"
RoleRightConditions_evaluate_default_deny(c, site_org, ctx) ==
    IF c.blocked_conditions # <<>> /\ _any_condition_matched(c.blocked_conditions, site_org, ctx)
    THEN FALSE
    ELSE IF c.allowed_conditions # <<>>
         THEN _any_condition_matched(c.allowed_conditions, site_org, ctx)
         ELSE FALSE

\* evaluate without the "else: return False" of the allowed list
RoleRightConditions_evaluate_fall_through(c, site_org, ctx) ==
    IF c.blocked_conditions # <<>> /\ _any_condition_matched(c.blocked_conditions, site_org, ctx)
    THEN FALSE
    ELSE TRUE

RoleRightConditions_evaluate(c, site_org, ctx) ==
    IF c.blocked_conditions # <<>> /\ _any_condition_matched(c.blocked_conditions, site_org, ctx)
    THEN FALSE
    ELSE IF c.allowed_conditions # <<>>
         THEN _any_condition_matched(c.allowed_conditions, site_org, ctx)
         ELSE TRUE

---------------------------------------------------------------------------
(* str literals of the source *)

S_not == <<"n", "o", "t">>
S_all == <<"a", "l", "l">>
S_any == <<"a", "n", "y">>
S_none == <<"n", "o", "n", "e">>
S_no == <<"n", "o">>
S_o == <<"o">>
S_org == <<"o", "r", "g">>
S_n == <<"n">>
S_name == <<"n", "a", "m", "e">>
S_super == <<"s", "u", "p", "e", "r">>
S_1_0 == <<"1", ".", "0">>
MSG_bad_expression == <<"b", "a", "d", " ", "c", "o", "n", "d", "i", "t", "i", "o", "n", " ", "e", "x", "p", "r", "e", "s", "s", "i", "o", "n", " ", "\"">>
MSG_invalid_type == <<"\"", ":", " ", "i", "n", "v", "a", "l", "i", "d", " ", "t", "y", "p", "e", " ", "\"">>
MSG_quote == <<"\"">>
MSG_no_conditions == <<"b", "a", "d", " ", "c", "o", "n", "d", "i", "t", "i", "o", "n", " ", "e", "x", "p", "r", "e", "s", "s", "i", "o", "n", " ", "-", " ", "n", "o", " ", "c", "o", "n", "d", "i", "t", "i", "o", "n", "s", " ", "s", "p", "e", "c", "i", "f", "i", "e", "d">>
MSG_bad_expression_type == <<"b", "a", "d", " ", "c", "o", "n", "d", "i", "t", "i", "o", "n", " ", "e", "x", "p", "r", "e", "s", "s", "i", "o", "n", " ", "t", "y", "p", "e", " ", "-", " ", "e", "x", "p", "e", "c", "t", " ", "s", "t", "r", " ", "o", "r", " ", "l", "i", "s", "t", " ", "b", "u", "t", " ", "g", "o", "t", " ">>
MSG_not_a_dict == <<"p", "o", "l", "i", "c", "y", " ", "d", "e", "f", "i", "n", "i", "t", "i", "o", "n", " ", "m", "u", "s", "t", " ", "b", "e", " ", "a", " ", "d", "i", "c", "t", " ", "b", "u", "t", " ", "g", "o", "t", " ">>
MSG_empty == <<"p", "o", "l", "i", "c", "y", " ", "d", "e", "f", "i", "n", "i", "t", "i", "o", "n", " ", "i", "s", " ", "e", "m", "p", "t", "y">>
MSG_format_version == <<"m", "i", "s", "s", "i", "n", "g", " ", "o", "r", " ", "i", "n", "v", "a", "l", "i", "d", " ", "p", "o", "l", "i", "c", "y", " ", "f", "o", "r", "m", "a", "t", "_", "v", "e", "r", "s", "i", "o", "n", ":", " ", "m", "u", "s", "t", " ", "b", "e", " ", "1", ".", "0">>
MSG_missing_permissions == <<"m", "i", "s", "s", "i", "n", "g", " ", "p", "e", "r", "m", "i", "s", "s", "i", "o", "n", "s">>
MSG_invalid_permissions == <<"i", "n", "v", "a", "l", "i", "d", " ", "p", "e", "r", "m", "i", "s", "s", "i", "o", "n", "s", ":", " ", "e", "x", "p", "e", "c", "t", " ", "a", " ", "d", "i", "c", "t", " ", "b", "u", "t", " ", "g", "o", "t", " ">>
MSG_bad_role_name == <<"b", "a", "d", " ", "r", "o", "l", "e", " ", "n", "a", "m", "e", ":", " ", "e", "x", "p", "e", "c", "t", " ", "a", " ", "s", "t", "r", " ", "b", "u", "t", " ", "g", "o", "t", " ">>
MSG_bad_right_config == <<"b", "a", "d", " ", "r", "i", "g", "h", "t", " ", "c", "o", "n", "f", "i", "g", ":", " ", "e", "x", "p", "e", "c", "t", " ", "a", " ", "d", "i", "c", "t", " ", "b", "u", "t", " ", "g", "o", "t", " ">>
MSG_bad_right_name == <<"b", "a", "d", " ", "r", "i", "g", "h", "t", " ", "n", "a", "m", "e", ":", " ", "e", "x", "p", "e", "c", "t", " ", "a", " ", "s", "t", "r", " ", "b", "u", "t", " ", "g", "o", "t", " ">>
MSG_policy_not_defined == <<"p", "o", "l", "i", "c", "y", " ", "n", "o", "t", " ", "d", "e", "f", "i", "n", "e", "d">>
MSG_user == <<"u", "s", "e", "r", " ", "'">>
MSG_not_authorized == <<"'", " ", "i", "s", " ", "n", "o", "t", " ", "a", "u", "t", "h", "o", "r", "i", "z", "e", "d", " ", "f", "o", "r", " ", "'">>
MSG_apostrophe == <<"'">>
MSG_class == <<"<", "c", "l", "a", "s", "s", " ", "'">>
MSG_class_end == <<"'", ">">>

\* the text of type(x) in an f-string
type_text(x) ==
    MSG_class \o
    (CASE x.t = "str" -> <<"s", "t", "r">>
       [] x.t = "list" -> <<"l", "i", "s", "t">>
       [] x.t = "dict" -> <<"d", "i", "c", "t">>
       [] x.t = "int" -> <<"i", "n", "t">>
       [] x.t = "bool" -> <<"b", "o", "o", "l">>
       [] x.t = "NoneType" -> <<"N", "o", "n", "e", "T", "y", "p", "e">>)
    \o MSG_class_end

---------------------------------------------------------------------------
(* The expression parser.  A method that changes self returns             *)
(* [raised, err, self]: raised when the call ends in an exception, err    *)
(* the returned value, self the object after the call.                    *)

EmptyConditions == RoleRightConditions(<<>>, <<>>, PyNone)

Returned(err, self) == [raised |-> FALSE, err |-> err, self |-> self]
Raised(self) == [raised |-> TRUE, err |-> PyNone, self |-> self]

\* the evaluator goes to the other list
file_condition_reversed(self, blocked, ev) ==
    IF blocked
    THEN [self EXCEPT !.allowed_conditions = Append(@, ev)]
    ELSE [self EXCEPT !.blocked_conditions = Append(@, ev)]

file_condition(self, blocked, ev) ==
    IF blocked
    THEN [self EXCEPT !.blocked_conditions = Append(@, ev)]
    ELSE [self EXCEPT !.allowed_conditions = Append(@, ev)]

\* _parse_one_expression from "parts = v.split(':')" on: v is the clause
\* without its leading "not", parts its pieces around ":"
parse_typed_condition(self, exp, blocked, parts, target_type, target_value) ==
    IF Len(parts) = 2
    THEN IF target_type \in {S_o, S_org}
         THEN Returned(PyStr(<<>>), file_condition(self, blocked, UserOrgEvaluator(target_value)))
         ELSE IF target_type \in {S_n, S_name}
         THEN Returned(PyStr(<<>>), file_condition(self, blocked, UserNameEvaluator(target_value)))
         ELSE Returned(PyStr(MSG_bad_expression \o exp.v \o MSG_invalid_type \o target_type \o MSG_quote), self)
    ELSE Returned(PyStr(MSG_bad_expression \o exp.v \o MSG_quote), self)

split_type_value(self, exp, blocked, parts) ==
    parse_typed_condition(self, exp, blocked, parts,
        IF Len(parts) = 2 THEN _normalize_str(parts[1]) ELSE <<>>,
        IF Len(parts) = 2 THEN _normalize_str(parts[2]) ELSE <<>>)

\* _parse_one_expression from "if v in ['all', 'any']" on
parse_condition(self, exp, blocked, v) ==
    IF v \in {S_all, S_any}
    THEN Returned(PyStr(<<>>), file_condition(self, blocked, TrueEvaluator))
    ELSE IF v \in {S_none, S_no}
    THEN Returned(PyStr(<<>>), file_condition(self, blocked, FalseEvaluator))
    ELSE split_type_value(self, exp, blocked, split_sep(v, ":"))

\* _parse_one_expression from "parts = v.split()" on: v is the normalized exp
parse_normalized(self, exp, v, parts) ==
    IF Len(parts) = 2 /\ parts[1] = S_not
    THEN parse_condition(self, exp, TRUE, parts[2])
    ELSE parse_condition(self, exp, FALSE, v)

split_normalized(self, exp, v) == parse_normalized(self, exp, v, split(v))

_parse_one_expression(self, exp) ==
    IF exp.t # "str"
    THEN Raised(self)   \* _normalize_str calls exp.lower(): AttributeError
    ELSE split_normalized(self, exp, _normalize_str(exp.v))

\* for ex in exp: the first error returns it; falling off the loop returns None
RECURSIVE parse_expression_loop(_, _, _)
parse_expression_next(exp, i, r) ==
    IF r.raised \/ truthy(r.err)
    THEN r
    ELSE parse_expression_loop(r.self, exp, i + 1)

parse_expression_loop(self, exp, i) ==
    IF i > Len(exp.v)
    THEN Returned(PyNone, self)
    ELSE parse_expression_next(exp, i, _parse_one_expression(self, exp.v[i]))

\* parse_expression that takes an empty list for an expression without clauses
parse_expression_of_empty_list(self, exp) ==
    IF exp.t = "str"
    THEN _parse_one_expression(self, exp)
    ELSE IF exp.t = "list"
    THEN parse_expression_loop(self, exp, 1)
    ELSE Returned(PyStr(MSG_bad_expression_type \o type_text(exp)), self)

\* parse_expression after "self.exp = exp"
parse_expression_of(self, exp) ==
    IF exp.t = "str"
    THEN _parse_one_expression(self, exp)
    ELSE IF exp.t = "list"
    THEN IF exp.v = <<>>
         THEN Returned(PyStr(MSG_no_conditions), self)
         ELSE parse_expression_loop(self, exp, 1)
    ELSE Returned(PyStr(MSG_bad_expression_type \o type_text(exp)), self)

parse_expression(self, exp) == parse_expression_of([self EXCEPT !.exp = exp], exp)

---------------------------------------------------------------------------
(* Policy *)

\* list.sort() of a list of str
RECURSIVE insert_sorted(_, _)
insert_sorted(sorted, s) ==
    IF sorted = <<>> THEN <<s>>
    ELSE IF str_lt(s, sorted[1]) THEN <<s>> \o sorted
    ELSE <<sorted[1]>> \o insert_sorted(Tail(sorted), s)

RECURSIVE sort(_)
sort(list) ==
    IF list = <<>> THEN <<>>
    ELSE insert_sorted(sort(SubSeq(list, 1, Len(list) - 1)), list[Len(list)])

Policy(config, role_right_map, roles, rights, role_rights) ==
    [cls |-> "Policy", config |-> config, role_right_map |-> role_right_map,
     roles |-> sort(roles), rights |-> sort(rights), role_rights |-> role_rights]

get_rights(policy) == policy.rights

get_roles(policy) == policy.roles

_role_right_key(role_name, right_name) == role_name \o <<":">> \o right_name

\* _eval_for_role that looks the right up first and the wildcard second
_eval_for_role_right_first(policy, role, site_org, ctx) ==
    LET any_key == _role_right_key(role, _ANY_RIGHT)
        right_key == _role_right_key(role, ctx.right)
        map == policy.role_right_map
    IN  IF right_key \in DOMAIN map
        THEN RoleRightConditions_evaluate(map[right_key], site_org, ctx)
        ELSE IF any_key \in DOMAIN map
        THEN RoleRightConditions_evaluate(map[any_key], site_org, ctx)
        ELSE FALSE

\* role_right_map.get(key) is None for a key that is absent; a
\* _RoleRightConditions object is always true as a condition
_eval_for_role(policy, role, site_org, ctx) ==
    LET any_key == _role_right_key(role, _ANY_RIGHT)
        right_key == _role_right_key(role, ctx.right)
        map == policy.role_right_map
    IN  IF any_key \in DOMAIN map
        THEN RoleRightConditions_evaluate(map[any_key], site_org, ctx)
        ELSE IF right_key \in DOMAIN map
        THEN RoleRightConditions_evaluate(map[right_key], site_org, ctx)
        ELSE FALSE

\* Policy.evaluate that returns (False, "") at the first role that does not permit
Policy_evaluate_veto(policy, site_org, ctx) ==
    LET org == _normalize_str(site_org)
    IN  IF \A i \in 1..Len(ctx.user.roles) : _eval_for_role(policy, ctx.user.roles[i], org, ctx)
        THEN <<TRUE, <<>>>>
        ELSE <<FALSE, <<>>>>

\* Policy.evaluate: (True, "") at the first role that permits, else (False, "")
Policy_evaluate(policy, site_org, ctx) ==
    LET org == _normalize_str(site_org)
    IN  IF \E i \in 1..Len(ctx.user.roles) : _eval_for_role(policy, ctx.user.roles[i], org, ctx)
        THEN <<TRUE, <<>>>>
        ELSE <<FALSE, <<>>>>

---------------------------------------------------------------------------
(* The policy compiler.  Its working state st is the four containers of    *)
(* parse_policy_config: role_right_map, role_rights, roles, rights.  A     *)
(* step of it returns [raised, err, st]; a true err is an early return.    *)

EmptyMap == [k \in {} |-> PyNone]

Step(st) == [raised |-> FALSE, err |-> PyStr(<<>>), st |-> st]
StepErr(err, st) == [raised |-> FALSE, err |-> err, st |-> st]
StepRaised(st) == [raised |-> TRUE, err |-> PyNone, st |-> st]
stopped(r) == r.raised \/ truthy(r.err)

\* right_conds is role_rights[role], the dict of the role being compiled
_add_role_right_conds(role, right, conds, st) ==
    [st EXCEPT
        !.role_rights = (role :> ((right :> conds.exp) @@ st.role_rights[role])) @@ @,
        !.role_right_map = (_role_right_key(role, right) :> conds) @@ @,
        !.rights = IF \E i \in 1..Len(@) : @[i] = right THEN @ ELSE Append(@, right)]

\* cat_to_rights.get(c): the rights that right_categories maps to c, in the
\* order of right_categories.items(); empty when right_categories is None or
\* empty or names no such category
RECURSIVE cat_to_rights_get(_, _)
cat_to_rights_get(right_categories, c) ==
    IF right_categories.t # "dict" \/ right_categories.v = <<>>
    THEN <<>>
    ELSE (IF right_categories.v[1][2] = c THEN <<right_categories.v[1][1]>> ELSE <<>>)
         \o cat_to_rights_get(PyDict(Tail(right_categories.v)), c)

RECURSIVE add_category_rights(_, _, _, _, _)
add_category_rights(role, right_list, i, conds, st) ==
    IF i > Len(right_list)
    THEN st
    ELSE add_category_rights(role, right_list, i + 1, conds,
                             _add_role_right_conds(role, right_list[i].v, conds, st))

\* the first loop's body from "if not right_list" on; parsed is what
\* conds.parse_expression(exp) gives
register_category(role_name, right, right_list, parsed, st) ==
    IF right_list = <<>>
    THEN Step(st)
    ELSE IF parsed.raised
    THEN StepRaised(st)
    ELSE IF truthy(parsed.err)
    THEN StepErr(parsed.err, st)
    ELSE Step(add_category_rights(role_name, right_list, 1, parsed.self,
                 _add_role_right_conds(role_name, right, parsed.self, st)))

\* "process right categories": the first loop over right_conf.items()
RECURSIVE category_pass(_, _, _, _, _)
category_pass_next(role_name, right_conf, i, right_categories, r) ==
    IF stopped(r) THEN r
    ELSE category_pass(role_name, right_conf, i + 1, right_categories, r.st)

category_item(role_name, right, exp, right_categories, st) ==
    register_category(role_name, right, cat_to_rights_get(right_categories, PyStr(right)),
                      parse_expression(EmptyConditions, exp), st)

category_pass(role_name, right_conf, i, right_categories, st) ==
    IF i > Len(right_conf.v)
    THEN Step(st)
    ELSE IF right_conf.v[i][1].t # "str"
    THEN StepErr(PyStr(MSG_bad_right_name \o type_text(right_conf.v[i][1])), st)
    ELSE category_pass_next(role_name, right_conf, i, right_categories,
            category_item(role_name, _normalize_str(right_conf.v[i][1].v),
                          right_conf.v[i][2], right_categories, st))

\* the second loop's body from "if right_list" on
register_literal(role_name, right, right_list, parsed, st) ==
    IF right_list # <<>>
    THEN Step(st)
    ELSE IF parsed.raised
    THEN StepRaised(st)
    ELSE IF truthy(parsed.err)
    THEN StepErr(parsed.err, st)
    ELSE Step(_add_role_right_conds(role_name, right, parsed.self, st))

\* "process regular rights": the second loop over right_conf.items()
RECURSIVE literal_pass(_, _, _, _, _)
literal_pass_next(role_name, right_conf, i, right_categories, r) ==
    IF stopped(r) THEN r
    ELSE literal_pass(role_name, right_conf, i + 1, right_categories, r.st)

literal_item(role_name, right, exp, right_categories, st) ==
    register_literal(role_name, right, cat_to_rights_get(right_categories, PyStr(right)),
                     parse_expression(EmptyConditions, exp), st)

literal_pass(role_name, right_conf, i, right_categories, st) ==
    IF i > Len(right_conf.v)
    THEN Step(st)
    ELSE IF right_conf.v[i][1].t # "str"
    THEN StepRaised(st)   \* _normalize_str calls right.lower(): AttributeError
    ELSE literal_pass_next(role_name, right_conf, i, right_categories,
            literal_item(role_name, _normalize_str(right_conf.v[i][1].v),
                         right_conf.v[i][2], right_categories, st))

\* the literal pass runs when the category pass ended without an early return
after_category_pass(role_name, right_conf, right_categories, r) ==
    IF stopped(r) THEN r
    ELSE literal_pass(role_name, right_conf, 1, right_categories, r.st)

\* right_conf is a str or a list: one rule for every right of the role
register_any_right(role_name, parsed, st) ==
    IF parsed.raised THEN StepRaised(st)
    ELSE IF truthy(parsed.err) THEN StepErr(parsed.err, st)
    ELSE Step(_add_role_right_conds(role_name, _ANY_RIGHT, parsed.self, st))

\* the two loops in the other order: the literal pass, then the category pass
after_literal_pass(role_name, right_conf, right_categories, r) ==
    IF stopped(r) THEN r
    ELSE category_pass(role_name, right_conf, 1, right_categories, r.st)

compile_role_rights_literal_first(role_name, right_conf, right_categories, st) ==
    IF right_conf.t \in {"str", "list"}
    THEN register_any_right(role_name, parse_expression(EmptyConditions, right_conf), st)
    ELSE IF right_conf.t # "dict"
    THEN StepErr(PyStr(MSG_bad_right_config \o type_text(right_conf)), st)
    ELSE after_literal_pass(role_name, right_conf, right_categories,
            literal_pass(role_name, right_conf, 1, right_categories, st))

\* the body of "for role_name, right_conf in permissions.items()" after
\* role_rights[role_name] = right_conds
compile_role_rights(role_name, right_conf, right_categories, st) ==
    IF right_conf.t \in {"str", "list"}
    THEN register_any_right(role_name, parse_expression(EmptyConditions, right_conf), st)
    ELSE IF right_conf.t # "dict"
    THEN StepErr(PyStr(MSG_bad_right_config \o type_text(right_conf)), st)
    ELSE after_category_pass(role_name, right_conf, right_categories,
            category_pass(role_name, right_conf, 1, right_categories, st))

start_role(role_name, st) ==
    [st EXCEPT !.roles = Append(@, role_name),
               !.role_rights = (role_name :> EmptyMap) @@ @]

compile_role(key, right_conf, right_categories, st) ==
    IF key.t # "str"
    THEN StepErr(PyStr(MSG_bad_role_name \o type_text(key)), st)
    ELSE compile_role_rights(_normalize_str(key.v), right_conf, right_categories,
                             start_role(_normalize_str(key.v), st))

RECURSIVE compile_roles(_, _, _, _)
compile_roles_next(permissions, i, right_categories, r) ==
    IF stopped(r) THEN r
    ELSE compile_roles(permissions, i + 1, right_categories, r.st)

compile_roles(permissions, i, right_categories, st) ==
    IF i > Len(permissions.v)
    THEN Step(st)
    ELSE compile_roles_next(permissions, i, right_categories,
            compile_role(permissions.v[i][1], permissions.v[i][2], right_categories, st))

\* parse_policy_config returns (policy, err), or raises
ParseResult(policy, err) == [raised |-> FALSE, policy |-> policy, err |-> err]
ParseRaised == [raised |-> TRUE, policy |-> NoneObject, err |-> PyNone]

EmptyState == [role_right_map |-> EmptyMap, role_rights |-> EmptyMap, roles |-> <<>>, rights |-> <<>>]

\* parse_policy_config from "return Policy(...)" back to the loop's early returns
compiled_policy(config, r) ==
    IF r.raised
    THEN ParseRaised
    ELSE IF truthy(r.err)
    THEN ParseResult(NoneObject, r.err)
    ELSE ParseResult(Policy(config, r.st.role_right_map, r.st.roles, r.st.rights,
                            r.st.role_rights), PyStr(<<>>))

\* parse_policy_config from "check version" on
check_config(config, right_categories, format_version, permissions) ==
    IF ~truthy(format_version) \/ format_version # PyStr(S_1_0)
    THEN ParseResult(NoneObject, PyStr(MSG_format_version))
    ELSE IF ~truthy(permissions)
    THEN ParseResult(NoneObject, PyStr(MSG_missing_permissions))
    ELSE IF permissions.t # "dict"
    THEN ParseResult(NoneObject, PyStr(MSG_invalid_permissions \o type_text(permissions)))
    ELSE compiled_policy(config, compile_roles(permissions, 1, right_categories, EmptyState))

parse_policy_config(config, right_categories) ==
    IF config.t # "dict"
    THEN ParseResult(NoneObject, PyStr(MSG_not_a_dict \o type_text(config)))
    ELSE IF ~truthy(config)
    THEN ParseResult(NoneObject, PyStr(MSG_empty))
    ELSE check_config(config, right_categories,
                      dict_get(config, PyStr(_KEY_FORMAT_VERSION)),
                      dict_get(config, PyStr(_KEY_PERMISSIONS)))

---------------------------------------------------------------------------
(* Authorizer *)

Authorizer(site_org, right_categories) ==
    [site_org |-> _normalize_str(site_org), right_categories |-> right_categories,
     policy |-> NoneObject, last_load_time |-> PyNone]

get_policy(self) == self.policy

\* Authorizer.evaluate returns (authorized, err); authorized is None without a policy
policy_result(r) == <<PyBool(r[1]), r[2]>>

\* evaluate that gives no reason when no policy is installed
Authorizer_evaluate_no_reason(self, ctx) ==
    IF self.policy.cls = "NoneType"
    THEN <<PyNone, <<>>>>
    ELSE policy_result(Policy_evaluate(self.policy, self.site_org, ctx))

Authorizer_evaluate(self, ctx) ==
    IF self.policy.cls = "NoneType"
    THEN <<PyNone, MSG_policy_not_defined>>
    ELSE policy_result(Policy_evaluate(self.policy, self.site_org, ctx))

\* The outcome of an authorize call: a returned (permitted, reason), or an exception
Permit == [raised |-> FALSE, permitted |-> TRUE, reason |-> <<>>]
Deny(reason) == [raised |-> FALSE, permitted |-> FALSE, reason |-> reason]
AssertionError == [raised |-> TRUE, permitted |-> FALSE, reason |-> <<>>]

\* authorize that passes on the reason of evaluate as it is
authorize_result_policy_reason(ctx, authorized, err) ==
    IF ~truthy(authorized)
    THEN Deny(err)
    ELSE Permit

\* authorize from "if not authorized" on
authorize_result(ctx, authorized, err) ==
    IF ~truthy(authorized)
    THEN IF err # <<>>
         THEN Deny(err)
         ELSE Deny(MSG_user \o ctx.user.name \o MSG_not_authorized \o ctx.right \o MSG_apostrophe)
    ELSE Permit

evaluated(ctx, r) == authorize_result(ctx, r[1], r[2])

\* authorize without the "super" test
Authorizer_authorize_no_bypass(self, ctx) ==
    IF ctx.cls = "NoneType"
    THEN Permit
    ELSE IF ctx.cls # "AuthzContext"
    THEN AssertionError
    ELSE IF ctx.user.cls # "Person"
    THEN AssertionError
    ELSE evaluated(ctx, Authorizer_evaluate(self, ctx))

\* authorize that refuses a context without a user instead of failing
Authorizer_authorize_swallow(self, ctx) ==
    IF ctx.cls = "NoneType"
    THEN Permit
    ELSE IF ctx.cls # "AuthzContext"
    THEN AssertionError
    ELSE IF ctx.user.cls # "Person"
    THEN Deny(MSG_policy_not_defined)
    ELSE IF \E i \in 1..Len(ctx.user.roles) : ctx.user.roles[i] = S_super
    THEN Permit
    ELSE evaluated(ctx, Authorizer_evaluate(self, ctx))

\* authorize whose assertions come before the test of a null ctx
Authorizer_authorize_null_checked(self, ctx) ==
    IF ctx.cls # "AuthzContext"
    THEN AssertionError
    ELSE IF ctx.user.cls # "Person"
    THEN AssertionError
    ELSE IF \E i \in 1..Len(ctx.user.roles) : ctx.user.roles[i] = S_super
    THEN Permit
    ELSE evaluated(ctx, Authorizer_evaluate(self, ctx))

Authorizer_authorize(self, ctx) ==
    IF ctx.cls = "NoneType"
    THEN Permit
    ELSE IF ctx.cls # "AuthzContext"
    THEN AssertionError
    ELSE IF ctx.user.cls # "Person"
    THEN AssertionError
    ELSE IF \E i \in 1..Len(ctx.user.roles) : ctx.user.roles[i] = S_super
    THEN Permit
    ELSE evaluated(ctx, Authorizer_evaluate(self, ctx))

\* load_policy that assigns self.policy and the time before it looks at err
install_policy_before_check(self, r, time) ==
    [raised |-> r.raised,
     err |-> IF ~r.raised /\ truthy(r.err) THEN r.err.v ELSE <<>>,
     self |-> IF r.raised THEN self
              ELSE [self EXCEPT !.policy = r.policy,
                                !.last_load_time = [t |-> "float", v |-> time]]]

\* load_policy from "if err" on: it returns an error str ("" for success), or
\* the compiler's exception passes through; time is what time.time() returns
install_policy(self, r, time) ==
    IF r.raised
    THEN [raised |-> TRUE, err |-> <<>>, self |-> self]
    ELSE IF truthy(r.err)
    THEN [raised |-> FALSE, err |-> r.err.v, self |-> self]
    ELSE [raised |-> FALSE, err |-> <<>>,
          self |-> [self EXCEPT !.policy = r.policy,
                                !.last_load_time = [t |-> "float", v |-> time]]]

Authorizer_load_policy(self, policy_config, time) ==
    install_policy(self, parse_policy_config(policy_config, self.right_categories), time)

---------------------------------------------------------------------------
(* AuthorizationService.  the_authorizer refers to an Authorizer by its id. *)

NoAuthorizer == 0

\* initialize that installs its argument whatever is installed
AuthorizationService_initialize_last_wins(installed, authorizer) ==
    [the_authorizer |-> authorizer, ret |-> authorizer]

\* initialize(authorizer) as one uninterrupted call: (the_authorizer after, returned reference)
AuthorizationService_initialize(installed, authorizer) ==
    LET after == IF installed = NoAuthorizer THEN authorizer ELSE installed
    IN  [the_authorizer |-> after, ret |-> after]

get_authorizer(installed) == installed

\* authorize that refuses when no authorizer is installed
AuthorizationService_authorize_fail_closed(installed, objects, ctx) ==
    IF installed = NoAuthorizer
    THEN Deny(MSG_policy_not_defined)
    ELSE Authorizer_authorize(objects[installed], ctx)

AuthorizationService_authorize(installed, objects, ctx) ==
    IF installed = NoAuthorizer
    THEN Permit
    ELSE Authorizer_authorize(objects[installed], ctx)

---------------------------------------------------------------------------
(* The inputs of the model: names, users, requests and policy documents *)

S_nv == <<"n", "v">>
S_ms == <<"m", "s">>
S_NV == <<"N", "V">>
S_alice == <<"a", "l", "i", "c", "e">>
S_Alice == <<"A", "l", "i", "c", "e">>
S_bob == <<"b", "o", "b">>
S_carol == <<"c", "a", "r", "o", "l">>
S_root == <<"r", "o", "o", "t">>
S_admin == <<"a", "d", "m", "i", "n">>
S_Admin == <<"A", "d", "m", "i", "n">>
S_member == <<"m", "e", "m", "b", "e", "r">>
S_view == <<"v", "i", "e", "w">>
S_View == <<"V", "i", "e", "w">>
S_edit == <<"e", "d", "i", "t">>
S_data == <<"d", "a", "t", "a">>
S_submit_job == <<"s", "u", "b", "m", "i", "t", "_", "j", "o", "b">>
S_Super_padded == <<" ", "S", "u", "p", "e", "r", " ">>
S_bogus == <<"b", "o", "g", "u", "s">>
S_org_site == <<"o", "r", "g", ":", "s", "i", "t", "e">>
S_not_any == <<"n", "o", "t", " ", "a", "n", "y">>
S_not_org_ms == <<"N", "o", "t", " ", " ", "O", ":", "m", "s">>
S_name_submitter == <<"n", "a", "m", "e", ":", "s", "u", "b", "m", "i", "t", "t", "e", "r">>

\* right => category, as the embedding system supplies it
DataCategories == PyDict(<< <<PyStr(S_view), PyStr(S_data)>>, <<PyStr(S_edit), PyStr(S_data)>> >>)

\* Authorizer(site_org, right_categories) for each authorizer the process creates
AuthorizerArgs == << <<S_NV, DataCategories>>, <<S_ms, PyNone>> >>

AuthorizerIds == 1..Len(AuthorizerArgs)

\* the authorizers whose policy the process loads and reloads; the others keep none
LoadedAuthorizers == {1}

Users ==
    << Person(S_Alice, S_NV, PyList(<<PyStr(S_Admin)>>)),
       Person(S_bob, S_ms, PyStr(S_member)),
       Person(S_bob, S_nv, PyStr(S_member)),
       Person(S_carol, S_ms, PyList(<<PyStr(S_member), PyStr(S_Super_padded)>>)),
       Person(S_root, S_nv, PyStr(S_super)) >>

Submitter == Person(S_bob, S_ms, PyStr(S_member))

\* requests of the users, then a request without a user, then no request
Contexts ==
    << AuthzContext(S_submit_job, Users[1], NoneObject),
       AuthzContext(S_view, Users[1], Submitter),
       AuthzContext(S_view, Users[2], NoneObject),
       AuthzContext(S_edit, Users[2], Submitter),
       AuthzContext(S_view, Users[3], NoneObject),
       AuthzContext(S_edit, Users[3], NoneObject),
       AuthzContext(S_view, Users[4], NoneObject),
       AuthzContext(S_submit_job, Users[5], Submitter),
       AuthzContext(S_view, NoneObject, NoneObject),
       NoneObject >>

PolicyConfig(permissions) ==
    PyDict(<< <<PyStr(_KEY_FORMAT_VERSION), PyStr(S_1_0)>>,
              <<PyStr(_KEY_PERMISSIONS), permissions>> >>)

Config_admin_any == PolicyConfig(PyDict(<< <<PyStr(S_admin), PyStr(S_any)>> >>))

Config_member_view ==
    PolicyConfig(PyDict(<< <<PyStr(S_member),
                             PyDict(<< <<PyStr(S_view), PyStr(S_org_site)>> >>)>> >>))

Config_category ==
    PolicyConfig(PyDict(<< <<PyStr(S_member),
                             PyDict(<< <<PyStr(S_view), PyStr(S_none)>>,
                                       <<PyStr(S_data), PyStr(S_org_site)>> >>)>> >>))

Config_deny_super ==
    PolicyConfig(PyDict(<< <<PyStr(S_super), PyStr(S_none)>>,
                           <<PyStr(S_member), PyList(<<PyStr(S_not_any)>>)>>,
                           <<PyStr(S_admin), PyList(<<PyStr(S_not_org_ms), PyStr(S_name_submitter)>>)>> >>))

Config_no_version == PyDict(<< <<PyStr(_KEY_PERMISSIONS), PyDict(<< <<PyStr(S_admin), PyStr(S_any)>> >>)>> >>)

Config_bad_expression == PolicyConfig(PyDict(<< <<PyStr(S_member), PyStr(S_bogus)>> >>))

Config_bad_element == PolicyConfig(PyDict(<< <<PyStr(S_member), PyList(<<PyStr(S_any), PyInt(1)>>)>> >>))

Configs == << Config_member_view, Config_category, Config_deny_super,
              Config_no_version, Config_bad_expression, Config_bad_element >>

---------------------------------------------------------------------------
(* Spec: one process that loads policies, installs an authorizer in the    *)
(* service and asks for authorizations, one call after the other.          *)

NoCall == [op |-> "none", self |-> NoAuthorizer, arg |-> 0, ret |-> <<>>]

Init ==
    /\ authorizers = [a \in AuthorizerIds |-> Authorizer(AuthorizerArgs[a][1], AuthorizerArgs[a][2])]
    /\ the_authorizer = NoAuthorizer
    /\ now = 0
    /\ call = NoCall
    /\ threads = <<>>

\* call.arg is the place of the argument in Configs or Contexts, or an authorizer's id
Loaded(a, i, r) ==
    /\ authorizers' = [authorizers EXCEPT ![a] = r.self]
    /\ call' = [op |-> "load_policy", self |-> a, arg |-> i,
                ret |-> [raised |-> r.raised, err |-> r.err]]
    /\ UNCHANGED <<the_authorizer, now, threads>>

LoadPolicy(a, i) == Loaded(a, i, Authorizer_load_policy(authorizers[a], Configs[i], now))

Authorize(a, i) ==
    /\ call' = [op |-> "authorize", self |-> a, arg |-> i,
                ret |-> Authorizer_authorize(authorizers[a], Contexts[i])]
    /\ UNCHANGED <<authorizers, the_authorizer, now, threads>>

Initialize(a) ==
    LET r == AuthorizationService_initialize(the_authorizer, a)
    IN  /\ the_authorizer' = r.the_authorizer
        /\ call' = [op |-> "initialize", self |-> NoAuthorizer, arg |-> a, ret |-> r.ret]
        /\ UNCHANGED <<authorizers, now, threads>>

ServiceAuthorize(i) ==
    /\ call' = [op |-> "service_authorize", self |-> the_authorizer, arg |-> i,
                ret |-> AuthorizationService_authorize(the_authorizer, authorizers, Contexts[i])]
    /\ UNCHANGED <<authorizers, the_authorizer, now, threads>>

\* the clock that time.time() reads moves on
Tick ==
    /\ now < MaxTime
    /\ now' = now + 1
    /\ UNCHANGED <<authorizers, the_authorizer, call, threads>>

Next ==
    \/ \E a \in LoadedAuthorizers, i \in 1..Len(Configs) : LoadPolicy(a, i)
    \/ \E a \in AuthorizerIds, i \in 1..Len(Contexts) : Authorize(a, i)
    \/ \E a \in AuthorizerIds : Initialize(a)
    \/ \E i \in 1..Len(Contexts) : ServiceAuthorize(i)
    \/ Tick

Spec == Init /\ [][Next]_vars

---------------------------------------------------------------------------
(* SpecEval: _RoleRightConditions.evaluate on every rule with up to        *)
(* MaxConds allow clauses and MaxConds block clauses.                      *)

Evaluators ==
    {TrueEvaluator, FalseEvaluator, UserOrgEvaluator(_TARGET_SITE), UserNameEvaluator(_TARGET_SUBMITTER)}

ConditionLists == UNION {[1..n -> Evaluators] : n \in 0..MaxConds}

\* the requests of Contexts that a rule is evaluated on, and the site orgs
EvalContexts == {2, 3, 4, 5}
EvalSiteOrgs == {S_nv, S_ms}

InitEval ==
    /\ authorizers = <<>>
    /\ the_authorizer = NoAuthorizer
    /\ now = 0
    /\ threads = <<>>
    /\ call \in {[op |-> "evaluate", self |-> RoleRightConditions(allowed, blocked, PyNone),
                  site_org |-> site_org, arg |-> i, done |-> FALSE, ret |-> FALSE] :
                     allowed \in ConditionLists, blocked \in ConditionLists,
                     site_org \in EvalSiteOrgs, i \in EvalContexts}

Evaluate ==
    /\ call.op = "evaluate"
    /\ ~call.done
    /\ call' = [call EXCEPT !.done = TRUE,
                            !.ret = RoleRightConditions_evaluate(call.self, call.site_org, Contexts[call.arg])]
    /\ UNCHANGED <<authorizers, the_authorizer, now, threads>>

NextEval == Evaluate

SpecEval == InitEval /\ [][NextEval]_vars

---------------------------------------------------------------------------
(* SpecParse: parse_policy_config on policy documents: every rule-spec     *)
(* mapping of up to MaxKeys keys in every order, every permissions         *)
(* mapping of up to MaxKeys role keys in every order, and Configs.         *)

Injective(f) == \A i, j \in DOMAIN f : i # j => f[i][1] # f[j][1]

\* the items of a dict of n distinct keys, in every order
Items(keys, values, n) == {items \in [1..n -> keys \X values] : Injective(items)}

RightKeys == {PyStr(S_data), PyStr(S_View), PyStr(S_edit), PyStr(S_submit_job)}
Expressions == {PyStr(S_org_site), PyStr(S_none)}

RightConfs == {PyDict(items) : items \in UNION {Items(RightKeys, Expressions, n) : n \in 1..MaxKeys}}

RoleKeys == {PyStr(S_member), PyStr(S_Admin), PyStr(S_admin)}
RoleConfs == {PyStr(S_any), PyDict(<< <<PyStr(S_submit_job), PyStr(S_org_site)>> >>)}

S_a_b_c == <<"a", ":", "b", ":", "c">>
S_x_y == <<"x", ":", "y">>

\* expression values that are no expression: an empty list, an unknown
\* keyword, a malformed type:value, an unknown type, a value that is neither
\* str nor list, a list with a bad clause, a list with an element that is no str
BadExpressions ==
    {PyList(<<>>), PyStr(S_bogus), PyStr(S_a_b_c), PyStr(S_x_y), PyInt(1), PyNone,
     PyList(<<PyStr(S_any), PyStr(S_bogus)>>), PyList(<<PyStr(S_any), PyInt(1)>>),
     PyList(<<PyNone>>)}

\* one role whose rule-spec is, or holds under a right or a category, a bad expression
BadExpressionConfigs ==
    {PolicyConfig(PyDict(<< <<PyStr(S_member), exp>> >>)) :
        exp \in {e \in BadExpressions : e.t \in {"str", "list"}}}
    \cup {PolicyConfig(PyDict(<< <<PyStr(S_member), PyDict(<< <<key, exp>> >>)>> >>)) :
            key \in {PyStr(S_view), PyStr(S_data)}, exp \in BadExpressions}

\* documents that fail one check of parse_policy_config, or two of them
InvalidConfigs ==
    {PyNone, PyList(<<>>), PyStr(S_1_0), PyDict(<<>>),
     PyDict(<< <<PyStr(_KEY_FORMAT_VERSION), PyInt(1)>>,
               <<PyStr(_KEY_PERMISSIONS), PyDict(<< <<PyStr(S_admin), PyStr(S_any)>> >>)>> >>),
     PyDict(<< <<PyStr(_KEY_FORMAT_VERSION), PyStr(S_any)>>,
               <<PyStr(_KEY_PERMISSIONS), PyList(<<PyStr(S_any)>>)>> >>),
     PyDict(<< <<PyStr(_KEY_FORMAT_VERSION), PyStr(S_1_0)>> >>),
     PolicyConfig(PyNone), PolicyConfig(PyDict(<<>>)), PolicyConfig(PyList(<<>>)),
     PolicyConfig(PyList(<<PyStr(S_any)>>)), PolicyConfig(PyStr(S_any)), PolicyConfig(PyInt(1)),
     PolicyConfig(PyDict(<< <<PyInt(1), PyStr(S_any)>> >>)),
     PolicyConfig(PyDict(<< <<PyInt(1), PyInt(1)>> >>)),
     PolicyConfig(PyDict(<< <<PyStr(S_admin), PyStr(S_any)>>, <<PyNone, PyStr(S_any)>> >>)),
     PolicyConfig(PyDict(<< <<PyStr(S_admin), PyInt(1)>> >>)),
     PolicyConfig(PyDict(<< <<PyStr(S_admin), PyNone>> >>)),
     PolicyConfig(PyDict(<< <<PyStr(S_admin), PyBool(TRUE)>>, <<PyInt(1), PyStr(S_any)>> >>)),
     PolicyConfig(PyDict(<< <<PyStr(S_admin), PyDict(<< <<PyInt(1), PyStr(S_any)>> >>)>> >>)),
     PolicyConfig(PyDict(<< <<PyStr(S_admin),
                              PyDict(<< <<PyStr(S_view), PyStr(S_any)>>, <<PyNone, PyStr(S_bogus)>> >>)>> >>))}

ParseConfigs ==
    {PolicyConfig(PyDict(<< <<PyStr(S_member), right_conf>> >>)) : right_conf \in RightConfs}
    \cup {PolicyConfig(PyDict(items)) : items \in UNION {Items(RoleKeys, RoleConfs, n) : n \in 1..MaxKeys}}
    \cup {Configs[i] : i \in 1..Len(Configs)}
    \cup BadExpressionConfigs
    \cup InvalidConfigs
    \cup {PolicyConfig(PyDict(<< <<PyStr(S_member), PyDict(<<>>)>> >>))}

InitParse ==
    /\ authorizers = <<>>
    /\ the_authorizer = NoAuthorizer
    /\ now = 0
    /\ threads = <<>>
    /\ call \in {[op |-> "parse_policy_config", arg |-> config, right_categories |-> right_categories,
                  done |-> FALSE, ret |-> ParseRaised] :
                     config \in ParseConfigs, right_categories \in {DataCategories, PyNone}}

ParsePolicyConfig ==
    /\ call.op = "parse_policy_config"
    /\ ~call.done
    /\ call' = [call EXCEPT !.done = TRUE,
                            !.ret = parse_policy_config(call.arg, call.right_categories)]
    /\ UNCHANGED <<authorizers, the_authorizer, now, threads>>

NextParse == ParsePolicyConfig

SpecParse == InitParse /\ [][NextParse]_vars

---------------------------------------------------------------------------
(* SpecConc: NumThreads threads call AuthorizationService.initialize at    *)
(* the same time, thread t with authorizer t.  A thread is preempted       *)
(* between the test of the_authorizer, the assignment and the return.      *)

Threads == 1..NumThreads

InitConc ==
    /\ authorizers = [t \in Threads |-> Authorizer(S_nv, PyNone)]
    /\ the_authorizer = NoAuthorizer
    /\ now = 0
    /\ call = NoCall
    /\ threads = [t \in Threads |-> [pc |-> "test", ret |-> NoAuthorizer]]

\* if not AuthorizationService.the_authorizer:
InitializeTest(t) ==
    /\ threads[t].pc = "test"
    /\ threads' = [threads EXCEPT ![t].pc = IF the_authorizer = NoAuthorizer THEN "assign" ELSE "return"]
    /\ UNCHANGED <<authorizers, the_authorizer, now, call>>

\* AuthorizationService.the_authorizer = authorizer
InitializeAssign(t) ==
    /\ threads[t].pc = "assign"
    /\ the_authorizer' = t
    /\ threads' = [threads EXCEPT ![t].pc = "return"]
    /\ UNCHANGED <<authorizers, now, call>>

\* return AuthorizationService.the_authorizer, ""
InitializeReturn(t) ==
    /\ threads[t].pc = "return"
    /\ threads' = [threads EXCEPT ![t].pc = "done", ![t].ret = the_authorizer]
    /\ UNCHANGED <<authorizers, the_authorizer, now, call>>

NextConc ==
    \/ \E t \in Threads : InitializeTest(t)
    \/ \E t \in Threads : InitializeAssign(t)
    \/ \E t \in Threads : InitializeReturn(t)

SpecConc == InitConc /\ [][NextConc]_vars

---------------------------------------------------------------------------
(* The claims *)

IsRequestOf(ctx) == ctx.cls = "AuthzContext" /\ ctx.user.cls = "Person"
HasRole(ctx, role) == \E i \in 1..Len(ctx.user.roles) : ctx.user.roles[i] = role
IsSuper(ctx) == IsRequestOf(ctx) /\ HasRole(ctx, S_super)
HasPolicy(a) == authorizers[a].policy.cls = "Policy"

\* C1: in every state of every authorizer (no policy, a policy that denies
\* or blocks the user, after successful and failed load_policy calls),
\* authorize returns (True, "") for every context whose user holds "super".
C1_SuperPermitted ==
    /\ \A a \in AuthorizerIds, i \in 1..Len(Contexts) :
          IsSuper(Contexts[i]) => Authorizer_authorize(authorizers[a], Contexts[i]) = Permit
    /\ (call.op = "authorize" /\ IsSuper(Contexts[call.arg])) => call.ret = Permit

\* a super user has been permitted by an authorizer whose policy denies the
\* role "super" every right
C1_Witness ==
    /\ call.op = "authorize"
    /\ IsSuper(Contexts[call.arg])
    /\ HasPolicy(call.self)
    /\ _role_right_key(S_super, _ANY_RIGHT) \in DOMAIN authorizers[call.self].policy.role_right_map
    /\ ~RoleRightConditions_evaluate(
           authorizers[call.self].policy.role_right_map[_role_right_key(S_super, _ANY_RIGHT)],
           authorizers[call.self].site_org, Contexts[call.arg])
    /\ call.ret = Permit

Evaluated == call.op = "evaluate" /\ call.done
Matches(conds) ==
    \E i \in 1..Len(conds) : ConditionEvaluator_evaluate(conds[i], call.site_org, Contexts[call.arg])

\* C2: block precedence: a rule with allow and block clauses of which a
\* block clause matches evaluates to False, also when an allow clause matches.
C2_BlockPrecedence ==
    (/\ Evaluated
     /\ call.self.allowed_conditions # <<>>
     /\ call.self.blocked_conditions # <<>>
     /\ Matches(call.self.blocked_conditions))
    => call.ret = FALSE

C2_Witness ==
    /\ Evaluated
    /\ Matches(call.self.blocked_conditions)
    /\ Matches(call.self.allowed_conditions)
    /\ call.ret = FALSE

\* C3: default permit: a rule with block clauses only, none of which
\* matches, evaluates to True.
C3_DefaultPermit ==
    (/\ Evaluated
     /\ call.self.allowed_conditions = <<>>
     /\ call.self.blocked_conditions # <<>>
     /\ ~Matches(call.self.blocked_conditions))
    => call.ret = TRUE

C3_Witness ==
    /\ Evaluated
    /\ call.self.allowed_conditions = <<>>
    /\ Len(call.self.blocked_conditions) = 2
    /\ call.self.blocked_conditions[1] = UserOrgEvaluator(_TARGET_SITE)
    /\ ~Matches(call.self.blocked_conditions)
    /\ call.ret = TRUE

\* C4: default deny: a rule with allow clauses, none of which matches,
\* evaluates to False, with or without block clauses.
C4_DefaultDeny ==
    (/\ Evaluated
     /\ call.self.allowed_conditions # <<>>
     /\ ~Matches(call.self.allowed_conditions))
    => call.ret = FALSE

C4_Witness ==
    /\ Evaluated
    /\ call.self.allowed_conditions # <<>>
    /\ ~Matches(call.self.allowed_conditions)
    /\ ~Matches(call.self.blocked_conditions)
    /\ call.ret = FALSE


Parsed == call.op = "parse_policy_config" /\ call.done
Compiled == Parsed /\ ~call.ret.raised /\ call.ret.policy.cls = "Policy"

\* the rule that parsing an expression gives
RuleOf(exp) == parse_expression(EmptyConditions, exp).self

NamesCategory(right_categories, c) ==
    /\ right_categories.t = "dict"
    /\ \E m \in 1..Len(right_categories.v) : right_categories.v[m][2] = PyStr(c)

PlacedIn(right_categories, x, c) ==
    /\ right_categories.t = "dict"
    /\ \E m \in 1..Len(right_categories.v) : right_categories.v[m] = <<PyStr(x), PyStr(c)>>

\* the names of the keys of a dict's items, normalized
KeyNames(items) == [i \in 1..Len(items) |-> _normalize_str(items[i][1].v)]
DistinctNames(names) == \A i, j \in 1..Len(names) : i # j => names[i] # names[j]

\* In the mapping items of role: item j is a category key, item k a literal
\* key that right_categories places in that category.
Overrides(right_categories, items, j, k) ==
    /\ NamesCategory(right_categories, KeyNames(items)[j])
    /\ ~NamesCategory(right_categories, KeyNames(items)[k])
    /\ PlacedIn(right_categories, KeyNames(items)[k], KeyNames(items)[j])

CategoryOverride(map, right_categories, role, items, j, k) ==
    /\ map[_role_right_key(role, KeyNames(items)[k])] = RuleOf(items[k][2])
    /\ map[_role_right_key(role, KeyNames(items)[j])] = RuleOf(items[j][2])
    /\ \A m \in 1..Len(right_categories.v) :
          (/\ right_categories.v[m][2] = PyStr(KeyNames(items)[j])
           /\ \A n \in 1..Len(items) : KeyNames(items)[n] # right_categories.v[m][1].v)
          => map[_role_right_key(role, right_categories.v[m][1].v)] = RuleOf(items[j][2])

\* the example of the claim: the category is "org:site" and the right "none"
OverrideExample(map, right_categories, role, items, j, k) ==
    (items[j][2] = PyStr(S_org_site) /\ items[k][2] = PyStr(S_none))
    => \A i \in EvalContexts, site_org \in EvalSiteOrgs :
          /\ ~RoleRightConditions_evaluate(map[_role_right_key(role, KeyNames(items)[k])],
                                           site_org, Contexts[i])
          /\ \A m \in 1..Len(right_categories.v) :
                (/\ right_categories.v[m][2] = PyStr(KeyNames(items)[j])
                 /\ \A n \in 1..Len(items) : KeyNames(items)[n] # right_categories.v[m][1].v)
                => (RoleRightConditions_evaluate(
                        map[_role_right_key(role, right_categories.v[m][1].v)], site_org, Contexts[i])
                    <=> Contexts[i].user.org = site_org)

Permissions == dict_get(call.arg, PyStr(_KEY_PERMISSIONS)).v

\* C5: category override: when the mapping of a role (role names and keys
\* distinct after normalization) holds a category key C and a literal key x
\* that right_categories places in C, in either order, the rule compiled for
\* (role, x) is the one of x's expression, and C and the other rights of C
\* that are no key of the mapping get the one of C's expression; with
\* C -> "org:site" and x -> "none", x is always denied and the others
\* follow the org match.
C5_CategoryOverride ==
    Compiled =>
        \A r \in 1..Len(Permissions) :
            (/\ Permissions[r][2].t = "dict"
             /\ DistinctNames(KeyNames(Permissions))
             /\ DistinctNames(KeyNames(Permissions[r][2].v)))
            => \A j, k \in 1..Len(Permissions[r][2].v) :
                  Overrides(call.right_categories, Permissions[r][2].v, j, k)
                  => /\ CategoryOverride(call.ret.policy.role_right_map, call.right_categories,
                                         KeyNames(Permissions)[r], Permissions[r][2].v, j, k)
                     /\ OverrideExample(call.ret.policy.role_right_map, call.right_categories,
                                        KeyNames(Permissions)[r], Permissions[r][2].v, j, k)

\* the literal key comes first and the category key second, with different
\* expressions, and the right has kept the rule of its own expression
C5_Witness ==
    /\ Compiled
    /\ Len(Permissions) = 1
    /\ Permissions[1][2].t = "dict"
    /\ Len(Permissions[1][2].v) = 2
    /\ Overrides(call.right_categories, Permissions[1][2].v, 2, 1)
    /\ Permissions[1][2].v[1][2] = PyStr(S_none)
    /\ Permissions[1][2].v[2][2] = PyStr(S_org_site)
    /\ call.ret.policy.role_right_map[_role_right_key(S_member, S_view)].exp = PyStr(S_none)
    /\ call.ret.policy.role_right_map[_role_right_key(S_member, S_edit)].exp = PyStr(S_org_site)

StrictlyAscending(list) == \A i \in 1..(Len(list) - 1) : str_lt(list[i], list[i + 1])

\* C6: get_roles() and get_rights() of every compiled Policy are sorted
\* ascending and hold no element twice, also when several role keys of
\* permissions normalize to the same role name.
C6_SortedNoDuplicates ==
    Compiled => /\ StrictlyAscending(get_roles(call.ret.policy))
                /\ StrictlyAscending(get_rights(call.ret.policy))

LoadFailed(c) == c.op = "load_policy" /\ ~c.ret.raised /\ c.ret.err # <<>>

\* C7: all-or-nothing reload: a load_policy call that returns a non-empty
\* error leaves the Authorizer's policy and last_load_time as they were, and
\* every authorize(ctx) gives what it gave before the call.
C7_AllOrNothingReload ==
    [][LoadFailed(call') =>
          /\ authorizers'[call'.self].policy = authorizers[call'.self].policy
          /\ authorizers'[call'.self].last_load_time = authorizers[call'.self].last_load_time
          /\ \A i \in 1..Len(Contexts) :
                Authorizer_authorize(authorizers'[call'.self], Contexts[i])
                    = Authorizer_authorize(authorizers[call'.self], Contexts[i])]_vars

\* a load has failed on an authorizer that serves a policy loaded earlier
C7_Witness ==
    /\ LoadFailed(call)
    /\ HasPolicy(call.self)
    /\ authorizers[call.self].last_load_time.v < now

\* C8: fail-open service: while no authorizer is installed,
\* AuthorizationService.authorize returns (True, "") for every ctx.
C8_FailOpen ==
    /\ the_authorizer = NoAuthorizer =>
          \A i \in 1..Len(Contexts) :
              AuthorizationService_authorize(the_authorizer, authorizers, Contexts[i]) = Permit
    /\ (call.op = "service_authorize" /\ call.self = NoAuthorizer) => call.ret = Permit

\* the service has permitted, with no authorizer installed, a request that
\* every authorizer of the process refuses
C8_Witness ==
    /\ call.op = "service_authorize"
    /\ call.self = NoAuthorizer
    /\ the_authorizer = NoAuthorizer
    /\ IsRequestOf(Contexts[call.arg])
    /\ \A a \in AuthorizerIds : ~Authorizer_authorize(authorizers[a], Contexts[call.arg]).permitted
    /\ call.ret = Permit

\* C9: install-once: in a series of initialize calls the first one installs
\* its argument; an installed authorizer never changes, and every call
\* returns the installed one, not its own argument.
C9_InstallOnce ==
    [][/\ the_authorizer # NoAuthorizer => the_authorizer' = the_authorizer
       /\ call'.op = "initialize" =>
             /\ the_authorizer = NoAuthorizer => the_authorizer' = call'.arg
             /\ call'.ret = the_authorizer']_vars

\* a later call with another authorizer has returned the first one
C9_Witness ==
    /\ call.op = "initialize"
    /\ call.arg # the_authorizer
    /\ call.ret = the_authorizer

AllReturned == \A t \in Threads : threads[t].pc = "done"

\* C10: initialize is an atomic install-if-absent: under every interleaving
\* of concurrent calls the installed reference is written once (it never
\* changes after becoming non-null) and every call returns the authorizer
\* that ends up installed.
C10_AtomicInstall ==
    [][/\ the_authorizer # NoAuthorizer => the_authorizer' = the_authorizer
       /\ AllReturned' => \A t \in Threads : threads'[t].ret = the_authorizer']_vars

---------------------------------------------------------------------------
(* SpecLoad: MaxLoads threads call load_policy on one Authorizer while     *)
(* another thread calls authorize on it.  A thread is preempted between    *)
(* any two reads or writes of the Authorizer's fields.  The Policy that    *)
(* parse_policy_config builds is held in locals of the loading thread      *)
(* until load_policy assigns it, and nothing writes to it afterwards.      *)

\* the assignments to fields of self that load_policy makes, in order, for
\* the (policy, err) that parse_policy_config gave
load_policy_writes_partial(r, time) ==
    IF r.raised \/ truthy(r.err)
    THEN <<>>
    ELSE << <<"policy", Policy(r.policy.config, EmptyMap, <<>>, <<>>, EmptyMap)>>,
            <<"policy", r.policy>>,
            <<"last_load_time", [t |-> "float", v |-> time]>> >>

load_policy_writes(r, time) ==
    IF r.raised \/ truthy(r.err)
    THEN <<>>
    ELSE << <<"policy", r.policy>>,
            <<"last_load_time", [t |-> "float", v |-> time]>> >>

\* authorize up to the call of self.evaluate: the outcome when it returns or
\* fails before, else no outcome yet
NoOutcome == [raised |-> FALSE, permitted |-> FALSE, reason |-> <<"?">>]

authorize_checks(ctx) ==
    IF ctx.cls = "NoneType"
    THEN Permit
    ELSE IF ctx.cls # "AuthzContext"
    THEN AssertionError
    ELSE IF ctx.user.cls # "Person"
    THEN AssertionError
    ELSE IF \E i \in 1..Len(ctx.user.roles) : ctx.user.roles[i] = S_super
    THEN Permit
    ELSE NoOutcome

SharedAuthorizer == 1
Loaders == 1..MaxLoads
Readers == {MaxLoads + 1}

\* the policy documents the loading threads load and the requests of the reader
LoadConfigs == {1, 3, 4}
ReadContexts == {3, 5, 8}

\* parsed is the loading thread's local (policy, err)
Idle == [pc |-> "idle", arg |-> 0, parsed |-> ParseRaised, step |-> 0, seen |-> {}, ret |-> NoOutcome]

InitLoad ==
    /\ authorizers = [a \in AuthorizerIds |-> Authorizer(AuthorizerArgs[a][1], AuthorizerArgs[a][2])]
    /\ the_authorizer = NoAuthorizer
    /\ now = 0
    /\ call = NoCall
    /\ threads = [t \in Loaders \cup Readers |-> Idle]

\* policy, err = parse_policy_config(policy_config, self.right_categories)
LoadBegin(t, i) ==
    /\ threads[t].pc = "idle"
    /\ threads' = [threads EXCEPT
          ![t].pc = "load",
          ![t].arg = i,
          ![t].parsed = parse_policy_config(Configs[i], authorizers[SharedAuthorizer].right_categories)]
    /\ UNCHANGED <<authorizers, the_authorizer, now, call>>

\* a reader in its call has seen every policy that was installed since the call began
Seeing(thread, policy) ==
    IF thread.pc \in {"test", "eval"}
    THEN [thread EXCEPT !.seen = @ \cup {policy}]
    ELSE thread

Written(t, w) ==
    /\ authorizers' = [authorizers EXCEPT ![SharedAuthorizer][w[1]] = w[2]]
    /\ threads' = [u \in DOMAIN threads |->
                     IF u = t
                     THEN [threads[u] EXCEPT !.step = @ + 1]
                     ELSE IF w[1] = "policy" THEN Seeing(threads[u], w[2]) ELSE threads[u]]
    /\ UNCHANGED <<the_authorizer, now, call>>

\* self.policy = policy, then self.last_load_time = time.time()
LoadWrite(t) ==
    /\ threads[t].pc = "load"
    /\ threads[t].step < Len(load_policy_writes(threads[t].parsed, now))
    /\ Written(t, load_policy_writes(threads[t].parsed, now)[threads[t].step + 1])

\* return err, or return ""
LoadReturn(t) ==
    /\ threads[t].pc = "load"
    /\ threads[t].step = Len(load_policy_writes(threads[t].parsed, now))
    /\ threads' = [threads EXCEPT ![t].pc = "done"]
    /\ UNCHANGED <<authorizers, the_authorizer, now, call>>

Began(t, i, outcome) ==
    /\ threads' = [threads EXCEPT ![t] = [pc |-> IF outcome = NoOutcome THEN "test" ELSE "done",
                                          arg |-> i, parsed |-> ParseRaised, step |-> 0,
                                          seen |-> {authorizers[SharedAuthorizer].policy},
                                          ret |-> outcome]]
    /\ UNCHANGED <<authorizers, the_authorizer, now, call>>

\* authorize(ctx) up to "authorized, err = self.evaluate(ctx)"
AuthorizeBegin(t, i) ==
    /\ threads[t].pc = "idle"
    /\ Began(t, i, authorize_checks(Contexts[i]))

\* evaluate: "if not self.policy" reads self.policy
AuthorizeTest(t) ==
    /\ threads[t].pc = "test"
    /\ threads' = [threads EXCEPT
          ![t].pc = IF authorizers[SharedAuthorizer].policy.cls = "NoneType" THEN "done" ELSE "eval",
          ![t].ret = IF authorizers[SharedAuthorizer].policy.cls = "NoneType"
                     THEN evaluated(Contexts[threads[t].arg], <<PyNone, MSG_policy_not_defined>>)
                     ELSE NoOutcome]
    /\ UNCHANGED <<authorizers, the_authorizer, now, call>>

\* evaluate: "return self.policy.evaluate(...)" reads self.policy again;
\* authorize then makes its (permitted, reason) of the result
AuthorizeEval(t) ==
    /\ threads[t].pc = "eval"
    /\ threads' = [threads EXCEPT
          ![t].pc = "done",
          ![t].ret = evaluated(Contexts[threads[t].arg],
                        policy_result(Policy_evaluate(authorizers[SharedAuthorizer].policy,
                                                      authorizers[SharedAuthorizer].site_org,
                                                      Contexts[threads[t].arg])))]
    /\ UNCHANGED <<authorizers, the_authorizer, now, call>>

NextLoad ==
    \/ \E t \in Loaders, i \in LoadConfigs : LoadBegin(t, i)
    \/ \E t \in Loaders : LoadWrite(t)
    \/ \E t \in Loaders : LoadReturn(t)
    \/ \E t \in Readers, i \in ReadContexts : AuthorizeBegin(t, i)
    \/ \E t \in Readers : AuthorizeTest(t)
    \/ \E t \in Readers : AuthorizeEval(t)

SpecLoad == InitLoad /\ [][NextLoad]_vars

\* the policy states an Authorizer can hold: none, or what parse_policy_config
\* made of one policy document
CompletePolicies ==
    {NoneObject} \cup
    {parse_policy_config(Configs[i], AuthorizerArgs[SharedAuthorizer][2]).policy : i \in LoadConfigs}

AnswerUnder(policy, i) ==
    Authorizer_authorize([authorizers[SharedAuthorizer] EXCEPT !.policy = policy], Contexts[i])

\* C11: atomic policy publication: what an authorize(ctx) call returns while
\* load_policy calls run on the same Authorizer is what authorize(ctx)
\* returns against one complete policy state (none, or the Policy of one
\* policy document) that was installed at some point during the call.
C11_AtomicPublication ==
    \A t \in Readers :
        (DOMAIN threads = Loaders \cup Readers /\ threads[t].pc = "done")
        => \E p \in threads[t].seen \cap CompletePolicies :
              threads[t].ret = AnswerUnder(p, threads[t].arg)

\* an authorize call has returned during which the installed policy changed
\* to one that answers the request differently
C11_Witness ==
    /\ DOMAIN threads = Loaders \cup Readers
    /\ \E t \in Readers :
          /\ threads[t].pc = "done"
          /\ \E p, q \in threads[t].seen :
                /\ AnswerUnder(p, threads[t].arg) # AnswerUnder(q, threads[t].arg)
                /\ p.cls = "Policy" /\ q.cls = "Policy"
                /\ threads[t].ret = AnswerUnder(q, threads[t].arg)

---------------------------------------------------------------------------
(* Claims about Authorizer.authorize, in Spec *)

NoSuperRequest(ctx) == IsRequestOf(ctx) /\ ~HasRole(ctx, S_super)

LoadUnsuccessful(c) == c.op = "load_policy" /\ (c.ret.raised \/ c.ret.err # <<>>)

\* C12: missing policy: an Authorizer on which no load_policy has succeeded,
\* also after failed load_policy calls, answers every request of a user
\* without the role "super" with (False, "policy not defined") and does not
\* fail.
C12_MissingPolicy ==
    /\ \A a \in AuthorizerIds, i \in 1..Len(Contexts) :
          (~HasPolicy(a) /\ NoSuperRequest(Contexts[i]))
          => Authorizer_authorize(authorizers[a], Contexts[i]) = Deny(MSG_policy_not_defined)
    /\ (call.op = "authorize" /\ ~HasPolicy(call.self) /\ NoSuperRequest(Contexts[call.arg]))
          => call.ret = Deny(MSG_policy_not_defined)

\* a load_policy call has just failed on an authorizer that has no policy,
\* and a request gets the answer "policy not defined" from it
C12_Witness ==
    /\ LoadUnsuccessful(call)
    /\ ~HasPolicy(call.self)
    /\ \E i \in 1..Len(Contexts) :
          /\ NoSuperRequest(Contexts[i])
          /\ Authorizer_authorize(authorizers[call.self], Contexts[i]) = Deny(MSG_policy_not_defined)

NotAuthorizedReason(ctx) ==
    MSG_user \o ctx.user.name \o MSG_not_authorized \o ctx.right \o MSG_apostrophe

DenialReasonOf(r, a, ctx) ==
    /\ (HasPolicy(a) /\ ~r.raised /\ ~r.permitted) => r.reason = NotAuthorizedReason(ctx)
    /\ (~r.raised /\ ~r.permitted) => r.reason # <<>>
    /\ (~r.raised /\ r.permitted) => r.reason = <<>>

\* C13: denial reason: when a Policy is installed and authorize(ctx) denies,
\* the reason is "user '<ctx.user.name>' is not authorized for
\* '<ctx.right>'"; authorize never returns a denial with an empty reason and
\* never a permit with a reason.
C13_DenialReason ==
    /\ \A a \in AuthorizerIds, i \in 1..Len(Contexts) :
          DenialReasonOf(Authorizer_authorize(authorizers[a], Contexts[i]), a, Contexts[i])
    /\ call.op = "authorize" => DenialReasonOf(call.ret, call.self, Contexts[call.arg])

\* an authorizer with a policy has refused a request
C13_Witness ==
    /\ call.op = "authorize"
    /\ HasPolicy(call.self)
    /\ NoSuperRequest(Contexts[call.arg])
    /\ call.ret = Deny(NotAuthorizedReason(Contexts[call.arg]))

UserMissing(ctx) == ctx.cls = "AuthzContext" /\ ctx.user.cls # "Person"

\* C18: a caller-contract violation halts: authorize with a context that has
\* no user fails with an assertion failure and returns neither a permit nor
\* a denial, with and without a policy installed.
C18_MissingUserHalts ==
    /\ \A a \in AuthorizerIds, i \in 1..Len(Contexts) :
          UserMissing(Contexts[i]) => Authorizer_authorize(authorizers[a], Contexts[i]) = AssertionError
    /\ (call.op = "authorize" /\ UserMissing(Contexts[call.arg])) => call.ret.raised

\* the call has failed on an authorizer with a policy
C18_Witness ==
    /\ call.op = "authorize"
    /\ UserMissing(Contexts[call.arg])
    /\ HasPolicy(call.self)
    /\ call.ret = AssertionError

\* C19: a null context permits: authorize(None) returns (True, "") in every
\* state of the Authorizer, also with no policy installed, and no check of
\* the user or of the policy fails before.
C19_NullContextPermits ==
    /\ \A a \in AuthorizerIds : Authorizer_authorize(authorizers[a], NoneObject) = Permit
    /\ (call.op = "authorize" /\ Contexts[call.arg] = NoneObject) => call.ret = Permit

\* authorize(None) has returned on an authorizer without a policy, which
\* refuses every request of a user
C19_Witness ==
    /\ call.op = "authorize"
    /\ Contexts[call.arg] = NoneObject
    /\ ~HasPolicy(call.self)
    /\ call.ret = Permit
    /\ \A i \in 1..Len(Contexts) :
          NoSuperRequest(Contexts[i]) => ~Authorizer_authorize(authorizers[call.self], Contexts[i]).permitted

---------------------------------------------------------------------------
(* SpecPolicy: Policy._eval_for_role and Policy.evaluate on compiled        *)
(* policies, for users with up to MaxRoles roles in every order.           *)

S_guest == <<"g", "u", "e", "s", "t">>
S_member_guest == <<"m", "e", "m", "b", "e", "r", ":", "g", "u", "e", "s", "t">>
S_guest_view == <<"g", "u", "e", "s", "t", ":", "v", "i", "e", "w">>

\* the permissions of the policy documents; a role name in two spellings
\* leaves a wildcard rule and a rule for one right under the same role; the
\* last one names a right with the separator of _role_right_key in it
PolicyDocs ==
    << PyDict(<< <<PyStr(S_Admin), PyStr(S_none)>>,
                 <<PyStr(S_admin), PyDict(<< <<PyStr(S_view), PyStr(S_any)>> >>)>> >>),
       PyDict(<< <<PyStr(S_Admin), PyStr(S_any)>>,
                 <<PyStr(S_admin), PyDict(<< <<PyStr(S_view), PyStr(S_none)>> >>)>>,
                 <<PyStr(S_member), PyDict(<< <<PyStr(S_edit), PyStr(S_org_site)>> >>)>> >>),
       PyDict(<< <<PyStr(S_member), PyDict(<< <<PyStr(_ANY_RIGHT), PyStr(S_org_site)>>,
                                               <<PyStr(S_view), PyStr(S_any)>> >>)>> >>),
       PyDict(<< <<PyStr(S_member), PyStr(S_not_any)>>,
                 <<PyStr(S_admin), PyStr(S_any)>> >>),
       PyDict(<< <<PyStr(S_member), PyList(<<PyStr(S_not_org_ms), PyStr(S_org_site)>>)>>,
                 <<PyStr(S_admin), PyDict(<< <<PyStr(S_view), PyStr(S_org_site)>> >>)>> >>),
       PyDict(<< <<PyStr(S_member), PyDict(<< <<PyStr(S_view), PyStr(S_not_org_ms)>> >>)>>,
                 <<PyStr(S_admin), PyDict(<< <<PyStr(S_edit), PyStr(S_any)>> >>)>> >>),
       PyDict(<< <<PyStr(S_member), PyDict(<< <<PyStr(S_guest_view), PyStr(S_any)>> >>)>> >>) >>

Policies == [i \in 1..Len(PolicyDocs) |-> parse_policy_config(PolicyConfig(PolicyDocs[i]), PyNone).policy]

RoleNames == {PyStr(S_member), PyStr(S_admin), PyStr(S_guest), PyStr(S_member_guest)}
RoleLists == UNION {[1..n -> RoleNames] : n \in 1..MaxRoles}

PolicyContexts ==
    {AuthzContext(right, Person(S_bob, org, PyList(roles)), NoneObject) :
        right \in {S_view, S_edit}, org \in {S_nv, S_ms}, roles \in RoleLists}

InitPolicy ==
    /\ authorizers = <<>>
    /\ the_authorizer = NoAuthorizer
    /\ now = 0
    /\ threads = <<>>
    /\ call \in {[op |-> "none", self |-> i, site_org |-> site_org, arg |-> ctx, role |-> 0,
                  ret |-> <<>>] :
                     i \in 1..Len(PolicyDocs), site_org \in {S_NV, S_ms}, ctx \in PolicyContexts}

\* evaluate passes the normalized site_org on to _eval_for_role
EvalForRole(k) ==
    /\ call.op = "none"
    /\ k \in 1..Len(call.arg.user.roles)
    /\ call' = [call EXCEPT
          !.op = "_eval_for_role",
          !.role = k,
          !.ret = _eval_for_role(Policies[call.self], call.arg.user.roles[k],
                                 _normalize_str(call.site_org), call.arg)]
    /\ UNCHANGED <<authorizers, the_authorizer, now, threads>>

PolicyEvaluate ==
    /\ call.op = "none"
    /\ call' = [call EXCEPT
          !.op = "evaluate",
          !.ret = Policy_evaluate(Policies[call.self], call.site_org, call.arg)]
    /\ UNCHANGED <<authorizers, the_authorizer, now, threads>>

NextPolicy ==
    \/ \E k \in 1..MaxRoles : EvalForRole(k)
    \/ PolicyEvaluate

SpecPolicy == InitPolicy /\ [][NextPolicy]_vars

RuleMap == Policies[call.self].role_right_map
WildcardKey(role) == role \o <<":", "*">>
RightKey(role) == role \o <<":">> \o call.arg.right
HasRule(key) == key \in DOMAIN RuleMap
RuleHolds(key) == RoleRightConditions_evaluate(RuleMap[key], _normalize_str(call.site_org), call.arg)

\* C14: wildcard-first lookup: for a role of the user the rule under
\* "role:*" is used when there is one, whatever the rule under
\* "role:<ctx.right>" says; that one is used only when there is no wildcard
\* rule; a role with neither rule gives no permit.
C14_WildcardFirst ==
    call.op = "_eval_for_role" =>
        /\ HasRule(WildcardKey(call.arg.user.roles[call.role]))
              => call.ret = RuleHolds(WildcardKey(call.arg.user.roles[call.role]))
        /\ (/\ ~HasRule(WildcardKey(call.arg.user.roles[call.role]))
            /\ HasRule(RightKey(call.arg.user.roles[call.role])))
              => call.ret = RuleHolds(RightKey(call.arg.user.roles[call.role]))
        /\ (/\ ~HasRule(WildcardKey(call.arg.user.roles[call.role]))
            /\ ~HasRule(RightKey(call.arg.user.roles[call.role])))
              => call.ret = FALSE

\* the role has both rules, they disagree on the request, and the answer is
\* the wildcard rule's
C14_Witness ==
    /\ call.op = "_eval_for_role"
    /\ HasRule(WildcardKey(call.arg.user.roles[call.role]))
    /\ HasRule(RightKey(call.arg.user.roles[call.role]))
    /\ RuleHolds(WildcardKey(call.arg.user.roles[call.role]))
          # RuleHolds(RightKey(call.arg.user.roles[call.role]))
    /\ call.ret = RuleHolds(WildcardKey(call.arg.user.roles[call.role]))

\* the rule selected for a role permits the request
RolePermits(role) ==
    IF HasRule(WildcardKey(role)) THEN RuleHolds(WildcardKey(role))
    ELSE IF HasRule(RightKey(role)) THEN RuleHolds(RightKey(role))
    ELSE FALSE

\* a block clause of the rule selected for a role matches the request
RoleBlocks(role) ==
    \E key \in {WildcardKey(role), RightKey(role)} :
        /\ HasRule(key)
        /\ key = RightKey(role) => ~HasRule(WildcardKey(role))
        /\ _any_condition_matched(RuleMap[key].blocked_conditions,
                                  _normalize_str(call.site_org), call.arg)

SameRoles(roles, other) ==
    {roles[i] : i \in 1..Len(roles)} = {other[i].v : i \in 1..Len(other)}

\* C15: any-role semantics: Policy.evaluate returns (True, "") iff the rule
\* selected for at least one role of the user evaluates to true, else
\* (False, ""); the order of the user's roles does not matter, and a block
\* clause that matches under one role does not undo the permit of another.
C15_AnyRole ==
    call.op = "evaluate" =>
        /\ call.ret = IF \E k \in 1..Len(call.arg.user.roles) : RolePermits(call.arg.user.roles[k])
                      THEN <<TRUE, <<>>>>
                      ELSE <<FALSE, <<>>>>
        /\ \A other \in RoleLists :
              SameRoles(call.arg.user.roles, other)
              => Policy_evaluate(Policies[call.self], call.site_org,
                                 [call.arg EXCEPT !.user.roles = [i \in 1..Len(other) |-> other[i].v]])
                 = call.ret

\* the first role of the user is blocked, the second permits, and the
\* request is permitted
C15_Witness ==
    /\ call.op = "evaluate"
    /\ Len(call.arg.user.roles) = 2
    /\ RoleBlocks(call.arg.user.roles[1])
    /\ ~RolePermits(call.arg.user.roles[1])
    /\ RolePermits(call.arg.user.roles[2])
    /\ call.ret = <<TRUE, <<>>>>

---------------------------------------------------------------------------
(* Claims about errors of parse_policy_config, in SpecParse *)

\* the grammar of a clause: an optional "not", then all, any, none, no,
\* o:<v>, org:<v>, n:<v> or name:<v>, whatever the case and the spacing
ClauseTokens(c) == split(lower(c.v))
ClauseNegated(c) == Len(ClauseTokens(c)) = 2 /\ ClauseTokens(c)[1] = S_not
ClauseBody(c) ==
    IF ClauseNegated(c) THEN ClauseTokens(c)[2] ELSE join(<<" ">>, ClauseTokens(c))
TypedBody(b) ==
    /\ Len(split_sep(b, ":")) = 2
    /\ _normalize_str(split_sep(b, ":")[1]) \in {S_o, S_org, S_n, S_name}
ValidClause(c) ==
    /\ c.t = "str"
    /\ ClauseBody(c) \in {S_all, S_any, S_none, S_no} \/ TypedBody(ClauseBody(c))
ValidExpression(exp) ==
    \/ ValidClause(exp)
    \/ exp.t = "list" /\ exp.v # <<>> /\ \A i \in 1..Len(exp.v) : ValidClause(exp.v[i])

PermissionsValue == dict_get(call.arg, PyStr(_KEY_PERMISSIONS))

Rejected(e) == call.ret = ParseResult(NoneObject, PyStr(e))

\* the document is well formed down to one role with a name
OneRole ==
    /\ call.arg.t = "dict"
    /\ dict_get(call.arg, PyStr(_KEY_FORMAT_VERSION)) = PyStr(S_1_0)
    /\ PermissionsValue.t = "dict"
    /\ Len(Permissions) = 1
    /\ Permissions[1][1].t = "str"

RuleSpec == Permissions[1][2]

\* the expression of the role: its rule-spec, or the one value of its rule-spec mapping
HasOneExpression ==
    /\ OneRole
    /\ \/ RuleSpec.t \in {"str", "list"}
       \/ RuleSpec.t = "dict" /\ Len(RuleSpec.v) = 1 /\ RuleSpec.v[1][1].t = "str"

OneExpression == IF RuleSpec.t = "dict" THEN RuleSpec.v[1][2] ELSE RuleSpec

ErrorValue(r) == ~r.raised /\ r.err.t = "str" /\ r.err.v # <<>>

\* C16: expression errors are values: for an expression value that is
\* invalid, of any shape, parse_expression returns a non-empty str and does
\* not raise, and parse_policy_config returns (None, that str).
C16_ExpressionErrorsAreValues ==
    (Parsed /\ HasOneExpression /\ ~ValidExpression(OneExpression))
    => /\ ErrorValue(parse_expression(EmptyConditions, OneExpression))
       /\ call.ret = ParseResult(NoneObject, parse_expression(EmptyConditions, OneExpression).err)

\* the enumerated failures, each with the error of the first check that fails
ValidationErrors ==
    Parsed =>
        /\ call.arg.t # "dict" => Rejected(MSG_not_a_dict \o type_text(call.arg))
        /\ call.arg = PyDict(<<>>) => Rejected(MSG_empty)
        /\ (/\ call.arg.t = "dict" /\ call.arg.v # <<>>
            /\ dict_get(call.arg, PyStr(_KEY_FORMAT_VERSION)) # PyStr(S_1_0))
              => Rejected(MSG_format_version)
        /\ (/\ call.arg.t = "dict"
            /\ dict_get(call.arg, PyStr(_KEY_FORMAT_VERSION)) = PyStr(S_1_0)
            /\ PermissionsValue.t # "dict")
              => \/ Rejected(MSG_missing_permissions)
                 \/ Rejected(MSG_invalid_permissions \o type_text(PermissionsValue))
        /\ (/\ call.arg.t = "dict"
            /\ dict_get(call.arg, PyStr(_KEY_FORMAT_VERSION)) = PyStr(S_1_0)
            /\ PermissionsValue = PyDict(<<>>))
              => Rejected(MSG_missing_permissions)
        /\ (/\ call.arg.t = "dict"
            /\ dict_get(call.arg, PyStr(_KEY_FORMAT_VERSION)) = PyStr(S_1_0)
            /\ PermissionsValue.t = "dict" /\ Permissions # <<>>)
              => /\ Permissions[1][1].t # "str"
                    => Rejected(MSG_bad_role_name \o type_text(Permissions[1][1]))
                 /\ (Permissions[1][1].t = "str" /\ RuleSpec.t \notin {"str", "list", "dict"})
                    => Rejected(MSG_bad_right_config \o type_text(RuleSpec))
                 /\ (/\ Permissions[1][1].t = "str" /\ RuleSpec.t = "dict" /\ RuleSpec.v # <<>>
                     /\ RuleSpec.v[1][1].t # "str")
                    => Rejected(MSG_bad_right_name \o type_text(RuleSpec.v[1][1]))

\* the call returns, with a Policy and no error or with an error and no Policy
ExactlyOne ==
    Parsed =>
        /\ ~call.ret.raised
        /\ \/ call.ret.policy.cls = "Policy" /\ call.ret.err = PyStr(<<>>)
           \/ call.ret.policy = NoneObject /\ call.ret.err.t = "str" /\ call.ret.err.v # <<>>

\* C17: configuration validation: parse_policy_config returns (None, error)
\* when config is no non-empty mapping, format_version is not "1.0",
\* permissions is missing or no mapping, a role or right name is no str, or
\* a rule-spec is neither str, list nor mapping; the first check that fails
\* gives the error; the result always holds exactly one of a Policy and a
\* non-empty error.
C17_ConfigurationValidation == ValidationErrors /\ ExactlyOne

---------------------------------------------------------------------------
(* SpecExpr: _RoleRightConditions.parse_expression on a clause and on      *)
(* every list of up to MaxConds clauses.                                   *)

S_o_nv == <<"o", ":", "n", "v">>
S_n_bob == <<"n", ":", "b", "o", "b">>
S_not_none == <<"n", "o", "t", " ", "n", "o", "n", "e">>
S_Not_Name_Bob == <<" ", "N", "O", "T", "\t", "N", "a", "m", "e", ":", "B", "o", "b", " ">>
S_org_not_x == <<"o", "r", "g", ":", "n", "o", "t", " ", "x">>
S_o_spaced == <<"o", " ", ":", " ", "n", "v">>
S_not_o_spaced == <<"n", "o", "t", " ", "o", " ", ":", "n", "v">>
S_ALL == <<"A", "L", "L">>

Clauses ==
    {PyStr(S_ALL), PyStr(S_no), PyStr(S_org_site), PyStr(S_o_nv), PyStr(S_n_bob),
     PyStr(S_name_submitter), PyStr(S_not_any), PyStr(S_not_none), PyStr(S_not_org_ms),
     PyStr(S_Not_Name_Bob), PyStr(S_org_not_x), PyStr(S_o_spaced),
     PyStr(S_not), PyStr(S_not_o_spaced), PyStr(S_bogus), PyStr(S_x_y)}

ClauseLists == {PyList(clauses) : clauses \in UNION {[1..n -> Clauses] : n \in 0..MaxConds}}

InitExpr ==
    /\ authorizers = <<>>
    /\ the_authorizer = NoAuthorizer
    /\ now = 0
    /\ threads = <<>>
    /\ call \in {[op |-> "parse_expression", arg |-> exp, done |-> FALSE,
                  ret |-> Raised(EmptyConditions)] : exp \in Clauses \cup ClauseLists}

\* conds = _RoleRightConditions(); conds.parse_expression(exp)
ParseExpression ==
    /\ call.op = "parse_expression"
    /\ ~call.done
    /\ call' = [call EXCEPT !.done = TRUE, !.ret = parse_expression(EmptyConditions, call.arg)]
    /\ UNCHANGED <<authorizers, the_authorizer, now, threads>>

NextExpr == ParseExpression

SpecExpr == InitExpr /\ [][NextExpr]_vars

ExprParsed == call.op = "parse_expression" /\ call.done /\ ~call.ret.raised /\ ~truthy(call.ret.err)

ClausesOf(exp) == IF exp.t = "str" THEN <<exp>> ELSE exp.v

\* the evaluator that the tokens of a clause after "not" stand for
EvaluatorOf(b) ==
    IF b \in {S_all, S_any} THEN TrueEvaluator
    ELSE IF b \in {S_none, S_no} THEN FalseEvaluator
    ELSE IF _normalize_str(split_sep(b, ":")[1]) \in {S_o, S_org}
    THEN UserOrgEvaluator(_normalize_str(split_sep(b, ":")[2]))
    ELSE UserNameEvaluator(_normalize_str(split_sep(b, ":")[2]))

\* the evaluators of the clauses that are, or are not, negated, in the order of the clauses
RECURSIVE Filed(_, _)
Filed(clauses, negated) ==
    IF clauses = <<>> THEN <<>>
    ELSE (IF ClauseNegated(clauses[1]) = negated
          THEN <<EvaluatorOf(ClauseBody(clauses[1]))>>
          ELSE <<>>) \o Filed(Tail(clauses), negated)

\* C20: clause filing: parsing a valid expression appends one evaluator per
\* clause to one list of the rule: the blocked list iff the normalized
\* clause starts with the token "not", else the allowed list; the rest of
\* the clause fixes the evaluator (all/any, none/no, o|org:v, n|name:v); n
\* clauses give |allowed| + |blocked| = n.
C20_ClauseFiling ==
    ExprParsed =>
        /\ call.ret.self.allowed_conditions = Filed(ClausesOf(call.arg), FALSE)
        /\ call.ret.self.blocked_conditions = Filed(ClausesOf(call.arg), TRUE)
        /\ Len(call.ret.self.allowed_conditions) + Len(call.ret.self.blocked_conditions)
              = Len(ClausesOf(call.arg))
        /\ \A i \in 1..Len(ClausesOf(call.arg)) :
              ClauseNegated(ClausesOf(call.arg)[i]) <=> ClauseTokens(ClausesOf(call.arg)[i])[1] = S_not

\* a list of a block clause and an allow clause has been parsed, and each
\* is in its list
C20_Witness ==
    /\ ExprParsed
    /\ call.arg = PyList(<<PyStr(S_Not_Name_Bob), PyStr(S_org_site)>>)
    /\ call.ret.self.blocked_conditions = <<UserNameEvaluator(S_bob)>>
    /\ call.ret.self.allowed_conditions = <<UserOrgEvaluator(_TARGET_SITE)>>

---------------------------------------------------------------------------
(* Claims about the containers of a compiled Policy, in SpecParse *)

CompiledMap == call.ret.policy.role_right_map

\* C21: no empty rule is reachable through the compiler: every
\* _RoleRightConditions in the role_right_map of a Policy that
\* parse_policy_config returns has a condition, allowed or blocked, so the
\* default permit of a rule without conditions never decides a request.
C21_NoEmptyRule ==
    Compiled =>
        \A key \in DOMAIN CompiledMap :
            /\ CompiledMap[key].allowed_conditions # <<>> \/ CompiledMap[key].blocked_conditions # <<>>
            /\ Len(CompiledMap[key].allowed_conditions) + Len(CompiledMap[key].blocked_conditions)
                  = Len(ClausesOf(CompiledMap[key].exp))

\* a policy has been compiled that holds a rule of block clauses only
C21_Witness ==
    /\ Compiled
    /\ \E key \in DOMAIN CompiledMap :
          /\ CompiledMap[key].allowed_conditions = <<>>
          /\ CompiledMap[key].blocked_conditions # <<>>

---------------------------------------------------------------------------
(* Role isolation, in SpecPolicy *)

\* the role names that are keys of the permissions of a policy document, normalized
PermissionRoles(i) == {_normalize_str(PolicyDocs[i].v[k][1].v) : k \in 1..Len(PolicyDocs[i].v)}

HoldsNoConfiguredRole ==
    \A k \in 1..Len(call.arg.user.roles) : call.arg.user.roles[k] \notin PermissionRoles(call.self)

\* C22: role isolation: a rule configured under a role is consulted only for
\* users who hold that role: Policy.evaluate denies every request of a user
\* who holds no role that is, after normalization, a key of permissions,
\* also when role or right names contain ":".
C22_RoleIsolation ==
    (call.op = "evaluate" /\ HoldsNoConfiguredRole) => call.ret = <<FALSE, <<>>>>

---------------------------------------------------------------------------
(* Introspection consistency, in SpecParse *)

CompiledRoleRights == call.ret.policy.role_rights

\* the right names the compiled policy knows: its catalog and the rights
\* recorded for the role
KnownRights(r) ==
    {call.ret.policy.rights[i] : i \in 1..Len(call.ret.policy.rights)} \cup DOMAIN CompiledRoleRights[r]

\* C23: introspection consistency: in every compiled Policy the key "r:x" is
\* in role_right_map exactly when x is a key of role_rights[r], and
\* role_rights[r][x] is the source expression of the rule stored under
\* "r:x", also when several keys of permissions normalize to the same role.
C23_IntrospectionConsistency ==
    Compiled =>
        \A r \in DOMAIN CompiledRoleRights :
            \A x \in KnownRights(r) :
                /\ _role_right_key(r, x) \in DOMAIN CompiledMap <=> x \in DOMAIN CompiledRoleRights[r]
                /\ x \in DOMAIN CompiledRoleRights[r] =>
                       CompiledRoleRights[r][x] = CompiledMap[_role_right_key(r, x)].exp

\* the same, for permissions whose role names are distinct after normalization
ConsistentForDistinctRoles ==
    (Compiled /\ DistinctNames(KeyNames(Permissions))) =>
        \A r \in DOMAIN CompiledRoleRights :
            \A x \in KnownRights(r) :
                /\ _role_right_key(r, x) \in DOMAIN CompiledMap <=> x \in DOMAIN CompiledRoleRights[r]
                /\ x \in DOMAIN CompiledRoleRights[r] =>
                       CompiledRoleRights[r][x] = CompiledMap[_role_right_key(r, x)].exp

===========================================================================
